---- MODULE Spec2Model ----
(***************************************************************************)
(* A model of smttask's task base (src/smttask/base.py): the casting       *)
(* helper, the description function, and the construction / description /  *)
(* input-loading life cycle of task instances.                             *)
(*                                                                         *)
(* Python values are records tagged by "kind".  A call's outcome is a      *)
(* record [exc, val, warn]: exc is "none" or the name of the exception the *)
(* call raises, val the returned value, warn whether warnings.warn ran.    *)
(* Python is modelled with assert statements enabled (the default).        *)
(***************************************************************************)
EXTENDS Integers, Sequences, FiniteSets, TLC

VARIABLES heap, last

vars == <<heap, last>>

(***************************************************************************)
(* Bounds of the model.                                                    *)
(***************************************************************************)
MaxInstances == 2
MaxLoadInstances == 3
MaxNestedInstances == 4
MaxGraphInstances == 3
MaxFetch == 2
MaxTupleLen == 2
MaxSeqLen == 2
MaxDictLen == 2

(***************************************************************************)
(* Python values.                                                          *)
(***************************************************************************)
None == [kind |-> "None"]
IntV(n) == [kind |-> "int", v |-> n]
FloatV(n) == [kind |-> "float", v |-> n]
StrV(s) == [kind |-> "str", v |-> s]
ListV(items) == [kind |-> "list", items |-> items]
TupleV(items) == [kind |-> "tuple", items |-> items]
Ndarray(items) == [kind |-> "ndarray", items |-> items]
SetOf(items) == [kind |-> "set", items |-> items]
Dict(items) == [kind |-> "dict", items |-> items]
AttrDict(items) == [kind |-> "AttrDict", items |-> items]
ParameterSet(items) == [kind |-> "ParameterSet", items |-> items]
TaskRef(i) == [kind |-> "task", id |-> i]
TypeVal(name, isLocal) == [kind |-> "type", name |-> name, isLocal |-> isLocal]
Obj(name) == [kind |-> "object", name |-> name]
Dist(name) == [kind |-> "dist", name |-> name]

\* class NotComputed (the sentinel of the result slot)
NotComputed == [kind |-> "type", name |-> "NotComputed", isLocal |-> FALSE]

\* class File: a value object wrapping a filename
File(filename) == [kind |-> "File", filename |-> filename]

\* sumatra's DataFile(path, store): its full_path is the store root joined
\* with path
DataFile(path) == [kind |-> "DataFile", path |-> path]

full_path(df) == StrV("/store/" \o df.path)

MappingKinds == {"dict", "AttrDict", "ParameterSet"}

\* PlainArg = (Number, str)
PlainArg == {"int", "float", "str"}

\* collections.Sequence among the modelled kinds (str is caught earlier)
SequenceKinds == {"list", "tuple"}

\* collections.Iterable among the modelled kinds
IterableKinds == {"list", "tuple", "str", "ndarray", "set"} \cup MappingKinds

(***************************************************************************)
(* Outcomes of calls.                                                      *)
(***************************************************************************)
Ok(v) == [exc |-> "none", val |-> v, warn |-> FALSE]
OkWarn(v, w) == [exc |-> "none", val |-> v, warn |-> w]
Raise(e) == [exc |-> e, val |-> None, warn |-> FALSE]

(***************************************************************************)
(* Insertion-ordered dicts: a sequence of <<key, value>> with unique keys. *)
(***************************************************************************)
Keys(items) == {items[i][1] : i \in 1..Len(items)}

HasKey(items, k) == \E i \in 1..Len(items) : items[i][1] = k

Get(items, k) == items[CHOOSE i \in 1..Len(items) : items[i][1] = k][2]

\* d[k] = v: an existing key keeps its position, a new key goes last
Put(items, k, v) ==
    IF HasKey(items, k)
    THEN [i \in 1..Len(items) |-> IF items[i][1] = k THEN <<k, v>> ELSE items[i]]
    ELSE Append(items, <<k, v>>)

RECURSIVE Merge(_, _)
\* {**a, **b}
Merge(a, b) == IF b = <<>> THEN a ELSE Merge(Put(a, b[1][1], b[1][2]), Tail(b))

(***************************************************************************)
(* cast                                                                    *)
(***************************************************************************)
\* A type is a class, Ty("int"), or a tuple of types, TyTuple(<<...>>).
Ty(name) == [tuple |-> FALSE, name |-> name]
TyTuple(elts) == [tuple |-> TRUE, elts |-> elts]

\* T(value) for the builtin classes: int, float and str applied to a value.
\* A float is modelled by its integral value; the only numeric string is "3".
PyCall(T, value) ==
    CASE T.name = "int" ->
           CASE value.kind = "int" -> Ok(value)
             [] value.kind = "float" -> Ok(IntV(value.v))
             [] value.kind = "str" ->
                  IF value.v = "3" THEN Ok(IntV(3)) ELSE Raise("ValueError")
             [] OTHER -> Raise("TypeError")
      [] T.name = "float" ->
           CASE value.kind = "int" -> Ok(FloatV(value.v))
             [] value.kind = "float" -> Ok(value)
             [] value.kind = "str" ->
                  IF value.v = "3" THEN Ok(FloatV(3)) ELSE Raise("ValueError")
             [] OTHER -> Raise("TypeError")
      [] T.name = "str" ->
           CASE value.kind = "int" -> Ok(StrV(ToString(value.v)))
             [] value.kind = "float" -> Ok(StrV(ToString(value.v) \o ".0"))
             [] value.kind = "str" -> Ok(value)
             [] value.kind = "None" -> Ok(StrV("None"))
             [] OTHER -> Ok(StrV("<str of " \o value.kind \o ">"))
      [] OTHER -> Raise("TypeError")

\* line 71, return T(value): cast's else branch reads the local name T, which
\* only the for statement of the other branch binds; in this frame it is
\* unbound, and the lookup raises before anything is called.
castElse(value, totype) == Raise("UnboundLocalError")

RECURSIVE cast(_, _), castLoop(_, _, _)
\* for T in totype: try cast(value, T); except (ValueError, TypeError): pass;
\* else: return r.  After the loop: raise TypeError.
castLoop(value, elts, i) ==
    IF i > Len(elts)
    THEN Raise("TypeError")
    ELSE LET r == cast(value, elts[i])
         IN  IF r.exc \in {"ValueError", "TypeError"}
             THEN castLoop(value, elts, i + 1)
             ELSE r

cast(value, totype) ==
    IF totype.tuple THEN castLoop(value, totype.elts, 1)
    ELSE castElse(value, totype)

(***************************************************************************)
(* describe                                                                *)
(***************************************************************************)
\* str(k) of a mapping key
StrOf(k) ==
    CASE k.kind = "str" -> k.v
      [] k.kind = "int" -> ToString(k.v)
      [] k.kind = "float" -> ToString(k.v) \o ".0"
      [] k.kind = "None" -> "None"
      [] OTHER -> "<" \o k.kind \o ">"

\* repr(v) of a class or of an object without a description of its own
Repr(v) ==
    CASE v.kind = "type" ->
           IF v.isLocal THEN "<class 'f.<locals>." \o v.name \o "'>"
           ELSE "<class '" \o v.name \o "'>"
      [] v.kind \in {"object", "dist"} -> "<" \o v.name \o " object at 0x7f>"
      [] OTHER -> "<" \o v.kind \o ">"

\* k.lower() == "type"
LowerIsType(k) ==
    k \in {"type", "Type", "TYPE", "tYPE", "tyPE", "typE", "TYpe", "TyPe",
           "TypE", "tYPe", "tYpE", "tyPe", "TYPe", "TYpE", "TyPE", "tYpe"}

\* File.desc(self, filename=None).  Called on a File it reads self.filename
\* when no filename is given; describe's DataFile branch calls it unbound,
\* File.desc(v.full_path), so self is a str, which has no attribute filename.
FileDesc(self, filename) ==
    IF filename = None
    THEN IF self.kind = "File"
         THEN Ok(ParameterSet(<< <<StrV("type"), StrV("File")>>,
                                 <<StrV("filename"), self.filename>> >>))
         ELSE Raise("AttributeError")
    ELSE Ok(ParameterSet(<< <<StrV("type"), StrV("File")>>,
                            <<StrV("filename"), filename>> >>))

RECURSIVE describe(_, _), describeSeq(_, _, _), describeItems(_, _, _)

\* [describe(u) for u in v]
describeSeq(h, items, acc) ==
    IF items = <<>> THEN acc
    ELSE LET r == describe(h, Head(items))
         IN  IF r.exc # "none" THEN r
             ELSE describeSeq(h, Tail(items),
                      OkWarn(ListV(Append(acc.val.items, r.val)),
                             acc.warn \/ r.warn))

\* {str(k): describe(u) for k, u in v.items()}
describeItems(h, items, acc) ==
    IF items = <<>> THEN acc
    ELSE LET r == describe(h, Head(items)[2])
         IN  IF r.exc # "none" THEN r
             ELSE describeItems(h, Tail(items),
                      OkWarn(ParameterSet(Put(acc.val.items,
                                              StrV(StrOf(Head(items)[1])),
                                              r.val)),
                             acc.warn \/ r.warn))

\* TaskBase.desc: taskname and the described input descriptors
TaskDesc(h, i) ==
    LET r == describe(h, h[i].input_descs)
    IN  IF r.exc # "none" THEN r
        ELSE OkWarn(ParameterSet(<< <<StrV("taskname"), StrV(h[i].type)>>,
                                    <<StrV("inputs"), r.val>> >>),
                    r.warn)

\* a describe without the TaskBase branch: a task instance falls to repr(v)
describeTaskRepr(h, v) == OkWarn(StrV(Repr(v)), TRUE)

\* elif isinstance(v, TaskBase): return v.desc
describeTask(h, v) == TaskDesc(h, v.id)

\* describe(v): one if/elif chain, in the source's order
describe(h, v) ==
    CASE v.kind \in PlainArg \/ v = None -> Ok(v)
      [] v.kind \in SequenceKinds ->
           describeSeq(h, v.items, Ok(ListV(<<>>)))
      [] v.kind = "ndarray" -> Ok(ListV(v.items))
      [] v.kind \in MappingKinds ->
           LET r == describeItems(h, v.items, Ok(ParameterSet(<<>>)))
           IN  IF r.exc # "none" THEN r
               ELSE OkWarn(r.val,
                           r.warn \/ \E k \in Keys(r.val.items) : LowerIsType(k.v))
      [] v.kind \in IterableKinds -> OkWarn(v, TRUE)
      [] v.kind = "task" -> describeTask(h, v)
      [] v.kind = "type" -> OkWarn(StrV(Repr(v)), v.isLocal)
      [] v.kind = "File" -> FileDesc(v, None)
      [] v.kind = "DataFile" -> FileDesc(full_path(v), None)
      [] v.kind = "dist" ->
           CASE v.name = "multivariate_normal_gen" -> Ok(StrV("multivariate_normal"))
             [] v.name = "multivariate_normal_frozen" ->
                  Ok(StrV("multivariate_normal(mean=0, cov=1)"))
             [] OTHER -> OkWarn(StrV(Repr(v)), TRUE)
      [] OTHER -> OkWarn(StrV(Repr(v)), TRUE)

(***************************************************************************)
(* Task definitions: the classes the model constructs.  Each gives the     *)
(* class attribute `inputs` (name -> accepted type, in declaration order), *)
(* the parameters of its _run as written in the def statement, and how     *)
(* _run is stored in the class __dict__.                                   *)
(*   Square:   inputs {a: int};  @staticmethod _run(a)                     *)
(*   Scale:    inputs {x: Square, k: (int, float)};                        *)
(*             @staticmethod _run(x, k=2)                                  *)
(*   ReadFile: inputs {f: (File, DataFile)};  @staticmethod _run(f)        *)
(*   Method:   inputs {cfg: dict};  _run(self, cfg)  (a plain method)      *)
(*   Reasoned: inputs {reason: str};  @staticmethod _run(reason)           *)
(***************************************************************************)
TaskTypes == {"Square", "Scale", "ReadFile", "Method", "Reasoned"}

inputs(T) ==
    CASE T = "Square" -> << <<StrV("a"), Ty("int")>> >>
      [] T = "Scale" -> << <<StrV("x"), Ty("Square")>>,
                           <<StrV("k"), TyTuple(<<Ty("int"), Ty("float")>>)>> >>
      [] T = "ReadFile" -> << <<StrV("f"), TyTuple(<<Ty("File"), Ty("DataFile")>>)>> >>
      [] T = "Method" -> << <<StrV("cfg"), Ty("dict")>> >>
      [] T = "Reasoned" -> << <<StrV("reason"), Ty("str")>> >>

Param(name) == [name |-> StrV(name), hasDefault |-> FALSE, default |-> None]
ParamDefault(name, d) == [name |-> StrV(name), hasDefault |-> TRUE, default |-> d]

RunParams(T) ==
    CASE T = "Square" -> <<Param("a")>>
      [] T = "Scale" -> <<Param("x"), ParamDefault("k", IntV(2))>>
      [] T = "ReadFile" -> <<Param("f")>>
      [] T = "Method" -> <<Param("self"), Param("cfg")>>
      [] T = "Reasoned" -> <<Param("reason")>>

\* type(cls.__dict__['_run'])
RunKind(T) == IF T = "Method" THEN "function" ELSE "staticmethod"

\* the attributes __init__ sets on an instance, and those of the classes
InstanceAttrs == {"taskinputs", "_loaded_inputs", "input_descs", "_run_result"}
ClassAttrs == {"cache", "inputs", "outputs", "_run", "desc", "input_files",
               "get_input_descs", "load_inputs", "get_abs_input_path"}

hasattr(obj, name) == name \in InstanceAttrs \cup ClassAttrs

\* the classes a value is an instance of
ClassesOf(h, v) ==
    CASE v.kind \in {"int", "float"} -> {v.kind, "Number", "object"}
      [] v.kind = "dict" -> {"dict", "Mapping", "object"}
      [] v.kind \in {"AttrDict", "ParameterSet"} ->
           {v.kind, "dict", "Mapping", "object"}
      [] v.kind = "task" -> {h[v.id].type, "TaskBase", "object"}
      [] OTHER -> {v.kind, "object"}

RECURSIVE isinstance(_, _, _)
isinstance(h, v, ty) ==
    IF ty.tuple THEN \E i \in 1..Len(ty.elts) : isinstance(h, v, ty.elts[i])
    ELSE ty.name \in ClassesOf(h, v)

(***************************************************************************)
(* TaskBase.__new__ / __init__ / get_input_descs                           *)
(***************************************************************************)
\* sumatra's build_parameters(path): the one parameter file of the model
build_parameters(path) ==
    IF path.v = "p.params"
    THEN Ok(ParameterSet(<< <<StrV("a"), IntV(1)>> >>))
    ELSE Raise("IOError")

\* def get_abs_input_path(path): one parameter, so the bound call
\* self.get_abs_input_path(θ) passes one positional argument too many; the
\* body reads the undefined names θ and inputstore.
get_abs_input_path_params == <<"path">>

get_abs_input_path(self, theta) ==
    IF Len(get_abs_input_path_params) # Len(<<self, theta>>)
    THEN Raise("TypeError")
    ELSE Raise("NameError")

RECURSIVE get_input_descs_loop(_, _, _, _)
\* for name, θtype in type(self).inputs.items(): ...
get_input_descs_loop(self, decl, taskinputs, acc) ==
    IF decl = <<>> THEN Ok(AttrDict(acc))
    ELSE LET name == Head(decl)[1]
         IN  IF ~HasKey(taskinputs, name) THEN Raise("KeyError")
             ELSE LET theta == Get(taskinputs, name)
                  IN  IF theta.kind \in PlainArg
                      THEN get_input_descs_loop(self, Tail(decl), taskinputs,
                                                Put(acc, name, theta))
                      ELSE IF theta.kind = "File"
                      THEN LET r == get_abs_input_path(self, theta)
                           IN  IF r.exc # "none" THEN r
                               ELSE get_input_descs_loop(self, Tail(decl),
                                        taskinputs, Put(acc, name, r.val))
                      ELSE get_input_descs_loop(self, Tail(decl), taskinputs,
                                                Put(acc, name, theta))

get_input_descs(self, T, taskinputs) ==
    get_input_descs_loop(self, inputs(T), taskinputs, <<>>)

\* inspect.signature(self._run).parameters: a function or classmethod looked
\* up on the instance is bound, and its signature omits the first parameter
Signature(T) ==
    IF RunKind(T) = "staticmethod" THEN RunParams(T) ELSE Tail(RunParams(T))

Names(ps) == [i \in 1..Len(ps) |-> ps[i].name]

required_inputs(T) == Names(SelectSeq(Signature(T), LAMBDA q : ~q.hasDefault))

default_inputs(T) ==
    LET ds == SelectSeq(Signature(T), LAMBDA q : q.hasDefault)
    IN  [i \in 1..Len(ds) |-> <<ds[i].name, ds[i].default>>]

SeqToSet(q) == {q[i] : i \in 1..Len(q)}

\* The outcome of a construction: exc, the instance returned (0 if none),
\* the heap afterwards, and whether get_input_descs was entered.
InitOut(e, ret, h, descs) == [exc |-> e, ret |-> ret, h |-> h, descs |-> descs]

\* lines 203-207: merge the defaults, set the attributes, build descriptors
InitFinish(h, T, taskinputs) ==
    LET self == Len(h) + 1
        ti == Merge(default_inputs(T), taskinputs)
        d == get_input_descs(self, T, ti)
    IN  IF d.exc # "none" THEN InitOut(d.exc, 0, h, TRUE)
        ELSE InitOut("none", self,
                     Append(h, [type |-> T,
                                taskinputs |-> ti,
                                loaded_inputs |-> None,
                                input_descs |-> d.val,
                                run_result |-> NotComputed,
                                fetches |-> [i \in 1..Len(ti) |-> 0]]),
                     TRUE)

\* InitCheck with the merge of line 184 the other way round, {**taskinputs,
\* **params}: the mapping would override the keywords
InitCheckParamsWin(h, T, params, taskinputs) ==
    IF params.kind \notin MappingKinds THEN InitOut("TypeError", 0, h, FALSE)
    ELSE LET ti == Merge(taskinputs, params.items)
             req == required_inputs(T)
         IN  IF RunKind(T) # "staticmethod" /\ req = <<>>
             THEN InitOut("IndexError", 0, h, FALSE)
             ELSE IF RunKind(T) # "staticmethod"
                     /\ Head(req).v \notin {"self", "cls"}
             THEN InitOut("AssertionError", 0, h, FALSE)
             ELSE LET req2 == IF RunKind(T) # "staticmethod" THEN Tail(req) ELSE req
                  IN  IF ~(\A q \in SeqToSet(req2) : HasKey(ti, q))
                      THEN InitOut("TypeError", 0, h, FALSE)
                      ELSE InitFinish(h, T, ti)

\* lines 184-201: merge params and keywords, check the required inputs
InitCheck(h, T, params, taskinputs) ==
    IF params.kind \notin MappingKinds THEN InitOut("TypeError", 0, h, FALSE)
    ELSE LET ti == Merge(params.items, taskinputs)
             req == required_inputs(T)
         IN  IF RunKind(T) # "staticmethod" /\ req = <<>>
             THEN InitOut("IndexError", 0, h, FALSE)
             ELSE IF RunKind(T) # "staticmethod"
                     /\ Head(req).v \notin {"self", "cls"}
             THEN InitOut("AssertionError", 0, h, FALSE)
             ELSE LET req2 == IF RunKind(T) # "staticmethod" THEN Tail(req) ELSE req
                  IN  IF ~(\A q \in SeqToSet(req2) : HasKey(ti, q))
                      THEN InitOut("TypeError", 0, h, FALSE)
                      ELSE InitFinish(h, T, ti)

\* lines 163-183: what params may be
InitParams(h, T, params, taskinputs) ==
    CASE params = None -> InitCheck(h, T, Dict(<<>>), taskinputs)
      [] params.kind = "str" ->
           LET b == build_parameters(params)
           IN  IF b.exc # "none" THEN InitOut(b.exc, 0, h, FALSE)
               ELSE InitCheck(h, T, b.val, taskinputs)
      [] params.kind \in MappingKinds ->
           InitCheck(h, T, ParameterSet(params.items), taskinputs)
      [] OTHER ->
           IF Len(inputs(T)) # 1 THEN InitOut("ValueError", 0, h, FALSE)
           ELSE LET name == inputs(T)[1][1]
                    ty == inputs(T)[1][2]
                IN  IF Len(taskinputs) > 0 THEN InitOut("TypeError", 0, h, FALSE)
                    ELSE LET c == IF ~isinstance(h, Dict(taskinputs), ty)
                                  THEN cast(Dict(taskinputs), ty)
                                  ELSE Ok(Dict(taskinputs))
                         IN  IF c.exc # "none" THEN InitOut(c.exc, 0, h, FALSE)
                             ELSE InitCheck(h, T, params, << <<name, c.val>> >>)

\* a TaskInit whose __init__ does not skip a pre-existing instance: it
\* initialises the instance __new__ returned again, from the keywords
TaskInitAgain(h, cls, params, taskinputs) ==
    LET existing == params.kind = "task" /\ isinstance(h, params, Ty(cls))
        T == IF existing THEN h[params.id].type ELSE cls
    IN  IF HasKey(inputs(T), StrV("reason")) \/ HasKey(inputs(T), StrV("cache_result"))
        THEN InitOut("AssertionError", 0, h, FALSE)
        ELSE IF existing
        THEN LET r == InitParams(h, T, None, taskinputs)
             IN  IF r.exc # "none" THEN InitOut(r.exc, 0, h, r.descs)
                 ELSE InitOut("none", params.id,
                              [h EXCEPT ![params.id] = r.h[Len(r.h)]], TRUE)
        ELSE InitParams(h, T, params, taskinputs)

\* T(params, **taskinputs): __new__, then __init__ on what it returned
TaskInit(h, cls, params, taskinputs) ==
    LET existing == params.kind = "task" /\ isinstance(h, params, Ty(cls))
        T == IF existing THEN h[params.id].type ELSE cls
    IN  IF HasKey(inputs(T), StrV("reason")) \/ HasKey(inputs(T), StrV("cache_result"))
        THEN InitOut("AssertionError", 0, h, FALSE)
        ELSE IF existing
        THEN IF hasattr(params, "_inputs")
             THEN InitOut("none", params.id, h, FALSE)
             ELSE InitOut("AssertionError", 0, h, FALSE)
        ELSE InitParams(h, T, params, taskinputs)

(***************************************************************************)
(* TaskBase.load_inputs, and the run() it calls on nested tasks            *)
(***************************************************************************)
\* The outcome of a call that may change instances: exc, val and the heap.
Out(e, v, h) == [exc |-> e, val |-> v, h |-> h]

\* what io.load returns for a data file, and what a task's run() returns
Loaded(df) == [kind |-> "loaded", path |-> df.path]
Result(j) == [kind |-> "result", of |-> j]

\* one more run() or io.load made by instance i for its k-th input
Fetched(h, i, k) == [h EXCEPT ![i].fetches[k] = @ + 1]

RECURSIVE load_inputs(_, _, _), load_inputs_loop(_, _, _, _, _), run(_, _, _)

\* run() is not defined by TaskBase; spec.md 4.2: a result already in the
\* result slot is returned without computing, otherwise load_inputs(), the
\* computation, and the result slot is filled.  fail: the calls that raise.
run(h, j, fail) ==
    IF h[j].run_result # NotComputed THEN Out("none", h[j].run_result, h)
    ELSE LET li == load_inputs(h, j, fail)
         IN  IF li.exc # "none" THEN li
             ELSE IF TaskRef(j) \in fail THEN Out("RuntimeError", None, li.h)
             ELSE Out("none", Result(j),
                      [li.h EXCEPT ![j].run_result = Result(j)])

\* {k: io.load(v.full_path) if isinstance(v, DataFile)
\*     else v.run() if isinstance(v, TaskBase) else v
\*  for k, v in self.taskinputs.items()}
load_inputs_loop(h, i, k, acc, fail) ==
    IF k > Len(h[i].taskinputs) THEN Out("none", AttrDict(acc), h)
    ELSE LET key == h[i].taskinputs[k][1]
             v == h[i].taskinputs[k][2]
         IN  IF v.kind = "DataFile"
             THEN IF v \in fail THEN Out("IOError", None, Fetched(h, i, k))
                  ELSE load_inputs_loop(Fetched(h, i, k), i, k + 1,
                                        Put(acc, key, Loaded(v)), fail)
             ELSE IF v.kind = "task"
             THEN LET r == run(Fetched(h, i, k), v.id, fail)
                  IN  IF r.exc # "none" THEN r
                      ELSE load_inputs_loop(r.h, i, k + 1,
                                            Put(acc, key, r.val), fail)
             ELSE load_inputs_loop(h, i, k + 1, Put(acc, key, v), fail)

\* a load_inputs without the `is None` test: it resolves on every call
load_inputs_always(h, i, fail) ==
    LET r == load_inputs_loop(h, i, 1, <<>>, fail)
    IN  IF r.exc # "none" THEN r
        ELSE Out("none", r.val, [r.h EXCEPT ![i].loaded_inputs = r.val])

load_inputs(h, i, fail) ==
    IF h[i].loaded_inputs = None
    THEN LET r == load_inputs_loop(h, i, 1, <<>>, fail)
         IN  IF r.exc # "none" THEN r
             ELSE Out("none", r.val, [r.h EXCEPT ![i].loaded_inputs = r.val])
    ELSE Out("none", h[i].loaded_inputs, h)

(***************************************************************************)
(* The calls the model makes.                                              *)
(***************************************************************************)
Refs(h) == {TaskRef(i) : i \in 1..Len(h)}

\* the values offered for an input given by keyword
InVals(h, T, name) ==
    CASE name = StrV("a") -> {IntV(1), ListV(<<IntV(1)>>)}
      [] name = StrV("x") -> Refs(h)
      [] name = StrV("k") -> {IntV(4)}
      [] name = StrV("f") -> {File(StrV("link")), DataFile("d")}
      [] name = StrV("cfg") -> {Dict(<<>>)}
      [] name = StrV("reason") -> {StrV("why")}

\* the values offered for an input given in the params mapping
ParamVals(h, T, name) ==
    CASE name = StrV("a") -> {IntV(1)}
      [] name = StrV("x") -> {IntV(7)}
      [] name = StrV("k") -> {}
      [] name = StrV("f") -> {File(StrV("link"))}
      [] name = StrV("cfg") -> {Dict(<<>>)}
      [] name = StrV("reason") -> {StrV("why")}

RECURSIVE Partial(_, _, _, _)
\* the mappings giving some of the declared inputs, in declaration order;
\* vals(h, T, name): the values offered
Partial(vals(_, _, _), h, T, decl) ==
    IF decl = <<>> THEN {<<>>}
    ELSE LET rest == Partial(vals, h, T, Tail(decl))
             name == Head(decl)[1]
         IN  rest \cup {<< <<name, v>> >> \o r : v \in vals(h, T, name), r \in rest}

Keywords(h, T) == Partial(InVals, h, T, inputs(T))

\* the (params, keywords) pairs of a construction: a mapping (or nothing)
\* with keywords, an instance, a bare value or a path alone, a bare value
\* with one keyword
Calls(h, T) ==
    (({None} \cup {Dict(m) : m \in Partial(ParamVals, h, T, inputs(T)) \ {<<>>}})
        \X Keywords(h, T))
    \cup ((Refs(h) \cup {IntV(5), StrV("p.params")}) \X {<<>>})
    \cup {<<IntV(5), m>> : m \in {n \in Keywords(h, T) : Len(n) = 1}}

RECURSIVE Closure(_, _)
\* the instances a load_inputs() on instance i may reach: the nested-task
\* inputs of i, and theirs
Closure(h, i) ==
    LET direct == {h[i].taskinputs[k][2].id :
                     k \in {n \in 1..Len(h[i].taskinputs) :
                               h[i].taskinputs[n][2].kind = "task"}}
    IN  direct \cup UNION {Closure(h, j) : j \in direct}

DataFilesOf(h, i) ==
    {h[i].taskinputs[k][2] :
       k \in {n \in 1..Len(h[i].taskinputs) : h[i].taskinputs[n][2].kind = "DataFile"}}

\* the calls that may raise during a load_inputs() of instance i: the
\* computation of a nested instance, the load of a data file.  The first
\* call that raises ends the load_inputs(), so one failure at a time is all
\* that can be observed.
FailSets(h, i) ==
    LET all == {TaskRef(j) : j \in Closure(h, i)}
               \cup UNION {DataFilesOf(h, j) : j \in Closure(h, i) \cup {i}}
    IN  {{}} \cup {{c} : c \in all}

\* keyword-only constructions of the types whose construction can succeed
NestedTypes == {"Square", "Scale", "ReadFile"}

NestedVals(h, T, name) ==
    CASE name = StrV("a") -> {IntV(1), ListV(<<IntV(1)>>), TupleV(<<IntV(1)>>)}
      [] name = StrV("x") -> Refs(h)
      [] name = StrV("k") -> {}
      [] name = StrV("f") -> {DataFile("d")}

NestedCalls(h, T) == {<<None, m>> : m \in Partial(NestedVals, h, T, inputs(T))}

\* the types whose instances fetch something in load_inputs()
LoadTypes == {"Scale", "ReadFile"}

(***************************************************************************)
(* The state machine.                                                      *)
(***************************************************************************)
Idle == [op |-> "idle"]

Init == heap = <<>> /\ last = Idle

\* T(params, **taskinputs)
Construct(T, params, taskinputs) ==
    LET r == TaskInit(heap, T, params, taskinputs)
    IN  /\ heap' = r.h
        /\ last' = [op |-> "construct", cls |-> T, params |-> params,
                    taskinputs |-> taskinputs, exc |-> r.exc,
                    ret |-> r.ret, descs |-> r.descs]

\* a desc that resolves the inputs before describing them
DescEager(i) ==
    /\ LET r == TaskDesc(heap, i)
       IN  last' = [op |-> "desc", id |-> i, exc |-> r.exc, val |-> r.val,
                    warn |-> r.warn]
    /\ heap' = load_inputs(heap, i, {}).h

\* heap[i].desc
Desc(i) ==
    /\ LET r == TaskDesc(heap, i)
       IN  last' = [op |-> "desc", id |-> i, exc |-> r.exc, val |-> r.val,
                    warn |-> r.warn]
    /\ UNCHANGED heap

\* heap[i].load_inputs()
LoadInputs(i, fail) ==
    LET r == load_inputs(heap, i, fail)
    IN  /\ \A j \in 1..Len(r.h) : \A k \in 1..Len(r.h[j].fetches) :
               r.h[j].fetches[k] <= MaxFetch
        /\ heap' = r.h
        /\ last' = [op |-> "load_inputs", id |-> i, exc |-> r.exc,
                    val |-> r.val, was |-> heap[i].loaded_inputs]

\* every form of construction, few instances
Next ==
    \/ /\ Len(heap) < MaxInstances
       /\ \E T \in TaskTypes : \E c \in Calls(heap, T) : Construct(T, c[1], c[2])
    \/ \E i \in 1..Len(heap) : Desc(i)
    \/ \E i \in 1..Len(heap) : \E fail \in FailSets(heap, i) : LoadInputs(i, fail)

Spec == Init /\ [][Next]_vars

\* keyword constructions and load_inputs(), more instances
NextLoad ==
    \/ /\ Len(heap) < MaxLoadInstances
       /\ \E T \in LoadTypes : \E c \in NestedCalls(heap, T) : Construct(T, c[1], c[2])
    \/ \E i \in 1..Len(heap) : \E fail \in FailSets(heap, i) : LoadInputs(i, fail)

SpecLoad == Init /\ [][NextLoad]_vars

\* keyword constructions and descriptions only, chains of nested tasks
NextNested ==
    \/ /\ Len(heap) < MaxNestedInstances
       /\ \E T \in NestedTypes : \E c \in NestedCalls(heap, T) : Construct(T, c[1], c[2])
    \/ \E i \in 1..Len(heap) : Desc(i)

SpecNested == Init /\ [][NextNested]_vars

(***************************************************************************)
(* Calls of the two functions of the module, cast and describe.            *)
(***************************************************************************)
SeqsUpTo(S, n) == UNION {[1..m -> S] : m \in 0..n}

CastValues ==
    {IntV(1), FloatV(2), StrV("3"), StrV("x"), None, ListV(<<>>), Dict(<<>>)}

PlainTypes == {Ty("int"), Ty("float"), Ty("str")}

CastTypes ==
    PlainTypes
    \cup {TyTuple(q) : q \in SeqsUpTo(PlainTypes \cup {TyTuple(<<>>)}, MaxTupleLen)}

Atoms ==
    {IntV(1), StrV("s"), None, Ndarray(<<IntV(1), IntV(2)>>), SetOf(<<IntV(1)>>),
     TypeVal("Square", FALSE), TypeVal("Local", TRUE), File(StrV("link")),
     DataFile("d"), Dist("multivariate_normal_gen"),
     Dist("multivariate_normal_frozen"), Dist("wishart_gen"), Obj("Thing")}

DictKeys == {StrV("a"), IntV(1), StrV("1"), StrV("Type")}

DictVals == {IntV(1), ListV(<<IntV(2)>>), SetOf(<<IntV(1)>>), DataFile("d")}

\* insertion-ordered mappings with distinct keys
DictItems ==
    {q \in SeqsUpTo(DictKeys \X DictVals, MaxDictLen) :
       \A i, j \in 1..Len(q) : i # j => q[i][1] # q[j][1]}

Sequences1 == {ListV(q) : q \in SeqsUpTo(Atoms, MaxSeqLen)}
              \cup {TupleV(q) : q \in SeqsUpTo(Atoms, MaxSeqLen)}

Mappings1 == {Dict(q) : q \in DictItems}

\* a sequence or a mapping inside a sequence or a mapping
Nested2 ==
    {ListV(<<c>>) : c \in {d \in Sequences1 \cup Mappings1 : Len(d.items) <= 1}}
    \cup {Dict(<< <<StrV("a"), c>> >>) :
            c \in {d \in Sequences1 \cup Mappings1 : Len(d.items) <= 1}}

DescribeValues == Atoms \cup Sequences1 \cup Mappings1 \cup Nested2

\* the calls to make: the arguments of one call of cast or of describe
InitPure ==
    /\ heap = <<>>
    /\ last \in {[op |-> "call cast", value |-> value, totype |-> totype] :
                   value \in CastValues, totype \in CastTypes}
               \cup {[op |-> "call describe", value |-> v] : v \in DescribeValues}

\* cast(value, totype)
CallCast ==
    /\ last.op = "call cast"
    /\ LET r == cast(last.value, last.totype)
       IN  last' = [op |-> "cast", value |-> last.value, totype |-> last.totype,
                    exc |-> r.exc, val |-> r.val]
    /\ UNCHANGED heap

\* describe(v)
CallDescribe ==
    /\ last.op = "call describe"
    /\ LET r == describe(heap, last.value)
       IN  last' = [op |-> "describe", value |-> last.value, exc |-> r.exc,
                    val |-> r.val, warn |-> r.warn]
    /\ UNCHANGED heap

NextPure == CallCast \/ CallDescribe

SpecPure == InitPure /\ [][NextPure]_vars

(***************************************************************************)
(* Python's == on the values descriptions are made of: mappings compare    *)
(* by their key/value pairs whatever the insertion order, sequences of one *)
(* kind element by element, numbers by value.                              *)
(***************************************************************************)
RECURSIVE PyEq(_, _)
PyEq(a, b) ==
    IF a.kind \in MappingKinds /\ b.kind \in MappingKinds
    THEN /\ Keys(a.items) = Keys(b.items)
         /\ \A k \in Keys(a.items) : PyEq(Get(a.items, k), Get(b.items, k))
    ELSE IF a.kind = b.kind /\ a.kind \in SequenceKinds
    THEN /\ Len(a.items) = Len(b.items)
         /\ \A i \in 1..Len(a.items) : PyEq(a.items[i], b.items[i])
    ELSE IF a.kind \in {"int", "float"} /\ b.kind \in {"int", "float"}
    THEN a.v = b.v
    ELSE a = b

(***************************************************************************)
(* C2.  cast(value, totype): what the claim says cast returns.             *)
(***************************************************************************)
RECURSIVE C2_Expected(_, _), C2_FirstThatConverts(_, _, _)
C2_FirstThatConverts(value, elts, i) ==
    IF i > Len(elts) THEN Raise("TypeError")
    ELSE LET r == C2_Expected(value, elts[i])
         IN  IF r.exc = "none" THEN r ELSE C2_FirstThatConverts(value, elts, i + 1)

C2_Expected(value, totype) ==
    IF totype.tuple THEN C2_FirstThatConverts(value, totype.elts, 1)
    ELSE PyCall(totype, value)

\* C2: cast with a tuple returns the conversion by the first candidate type
\* that converts the value, and raises TypeError only when none does; with
\* a single type it returns that type applied to the value.
C2_CastFirstCandidate ==
    last.op = "cast" =>
        LET want == C2_Expected(last.value, last.totype)
        IN  /\ want.exc = "none" => last.exc = "none" /\ last.val = want.val
            /\ last.exc # "none" => last.exc = "TypeError" /\ want.exc # "none"

(***************************************************************************)
(* C6.  describe is total.                                                 *)
(***************************************************************************)
\* the kinds describe has no branch of its own for
C6_Unsupported(v) ==
    \/ v.kind \in {"set", "object"}
    \/ v.kind = "dist" /\ v.name \notin {"multivariate_normal_gen",
                                          "multivariate_normal_frozen"}

\* C6: describe returns a description for every value and never raises; for
\* a value of an unsupported kind (an iterable that is no sequence, array
\* or mapping included) the description is the value's textual
\* representation, a string, and a warning is emitted; for a data-file
\* handle it is the tagged File record.
C6_DescribeTotal ==
    last.op = "describe" =>
        /\ last.exc = "none"
        /\ C6_Unsupported(last.value) =>
               last.val.kind = "str" /\ last.warn
        /\ last.value.kind = "DataFile" =>
               last.val = ParameterSet(<< <<StrV("type"), StrV("File")>>,
                                          <<StrV("filename"), full_path(last.value)>> >>)

(***************************************************************************)
(* Claims about construction.                                              *)
(***************************************************************************)
\* a construction from a mapping (or nothing) and keyword inputs
FromMapping == last.op = "construct"
               /\ (last.params = None \/ last.params.kind \in MappingKinds)

\* the items of the mapping given as params
ParamItems == IF last.params = None THEN <<>> ELSE last.params.items

\* the task definitions that name no reserved input
Valid(T) == ~HasKey(inputs(T), StrV("reason")) /\ ~HasKey(inputs(T), StrV("cache_result"))

\* the parameters of the computation function as written, without a leading
\* self or cls
OwnParams(T) ==
    IF RunParams(T) # <<>> /\ Head(RunParams(T)).name.v \in {"self", "cls"}
    THEN Tail(RunParams(T)) ELSE RunParams(T)

Required(T) == {OwnParams(T)[i].name : i \in {n \in 1..Len(OwnParams(T)) : ~OwnParams(T)[n].hasDefault}}

Defaulted(T) == {OwnParams(T)[i].name : i \in {n \in 1..Len(OwnParams(T)) : OwnParams(T)[n].hasDefault}}

DefaultOf(T, name) ==
    OwnParams(T)[CHOOSE i \in 1..Len(OwnParams(T)) : OwnParams(T)[i].name = name].default

\* C1: T(t) for an instance t of T returns t itself.
C1_RewrapReturnsSame ==
    (/\ last.op = "construct"
     /\ last.params.kind = "task"
     /\ heap[last.params.id].type = last.cls)
    => last.exc = "none" /\ last.ret = last.params.id

\* C3: a construction from a mapping and keyword inputs fails, before the
\* input descriptors are built, when a required input is in neither, and
\* succeeds when every required input is supplied.  (Stated for inputs that
\* are no File references: those are C5's.)
C3_RequiredInputs ==
    (/\ FromMapping
     /\ Valid(last.cls)
     /\ \A i \in 1..Len(last.taskinputs) : last.taskinputs[i][2].kind # "File"
     /\ \A i \in 1..Len(ParamItems) : ParamItems[i][2].kind # "File") =>
        IF Required(last.cls) \subseteq Keys(ParamItems) \cup Keys(last.taskinputs)
        THEN last.exc = "none"
        ELSE last.exc # "none" /\ ~last.descs

\* C4: a task type with one input, constructed with a bare positional value
\* and no keyword inputs, yields an instance whose input is that value, cast
\* to the accepted type when it is not of that type already.
C4_BarePositional ==
    (/\ last.op = "construct"
     /\ Valid(last.cls)
     /\ Len(inputs(last.cls)) = 1
     /\ last.params.kind \notin {"None", "str", "task"} \cup MappingKinds
     /\ last.taskinputs = <<>>)
    => LET name == inputs(last.cls)[1][1]
           ty == inputs(last.cls)[1][2]
           want == IF isinstance(heap, last.params, ty) THEN Ok(last.params)
                   ELSE C2_Expected(last.params, ty)
       IN  want.exc = "none" =>
               /\ last.exc = "none"
               /\ Get(heap[last.ret].taskinputs, name) = want.val

\* spec.md 4.2: the de-referenced, store-root-relative path of a file
Dereferenced(filename) == IF filename.v = "link" THEN "target" ELSE filename.v

\* C5: constructing a task with a File input gives an input descriptor
\* holding the de-referenced, store-root-relative path of the file.
C5_FileDescriptor ==
    (/\ FromMapping
     /\ Valid(last.cls)
     /\ Required(last.cls) \subseteq Keys(ParamItems) \cup Keys(last.taskinputs)
     /\ \E i \in 1..Len(inputs(last.cls)) :
            LET name == inputs(last.cls)[i][1]
                given == Merge(ParamItems, last.taskinputs)
            IN  HasKey(given, name) /\ Get(given, name).kind = "File")
    => /\ last.exc = "none"
       /\ \A i \in 1..Len(inputs(last.cls)) :
             LET name == inputs(last.cls)[i][1]
                 given == Merge(ParamItems, last.taskinputs)
             IN  (HasKey(given, name) /\ Get(given, name).kind = "File") =>
                     Get(heap[last.ret].input_descs.items, name)
                         = DataFile(Dereferenced(Get(given, name).filename))

\* C10: in the final input set of a task constructed from a mapping and
\* keyword inputs, every input has the keyword value if one was given, else
\* the value in the mapping if it has one, else the default of the
\* computation function's signature; the defaults not overridden are there.
C10_Precedence ==
    (FromMapping /\ last.exc = "none") =>
        LET final == heap[last.ret].taskinputs
            T == last.cls
        IN  /\ Keys(final) = Keys(last.taskinputs) \cup Keys(ParamItems) \cup Defaulted(T)
            /\ \A name \in Keys(final) :
                  Get(final, name) =
                      IF HasKey(last.taskinputs, name) THEN Get(last.taskinputs, name)
                      ELSE IF HasKey(ParamItems, name) THEN Get(ParamItems, name)
                      ELSE DefaultOf(T, name)

\* a construction that gave one input twice, with different values, and
\* left a default in place
C10_Witness ==
    /\ FromMapping
    /\ last.exc = "none"
    /\ \E name \in Keys(last.taskinputs) \cap Keys(ParamItems) :
           Get(last.taskinputs, name) # Get(ParamItems, name)
    /\ \E name \in Defaulted(last.cls) :
           name \notin Keys(last.taskinputs) \cup Keys(ParamItems)

(***************************************************************************)
(* Claims about descriptions of nested tasks.                              *)
(***************************************************************************)
\* the names of the inputs of instance i whose descriptor is a task instance
TaskInputsOf(i) ==
    {name \in Keys(heap[i].input_descs.items) :
       Get(heap[i].input_descs.items, name).kind = "task"}

\* the instance that is input `name` of instance i
TaskInput(i, name) == Get(heap[i].input_descs.items, name).id

Described(i) == TaskDesc(heap, i).exc = "none"

\* two instances of one type, with a task among their inputs, whose raw
\* inputs are the same but for the task instances
SameButTasks(b1, b2) ==
    /\ heap[b1].type = heap[b2].type
    /\ Keys(heap[b1].taskinputs) = Keys(heap[b2].taskinputs)
    /\ TaskInputsOf(b1) # {}
    /\ \A name \in Keys(heap[b1].taskinputs) :
          LET u == Get(heap[b1].taskinputs, name)
              v == Get(heap[b2].taskinputs, name)
          IN  IF u.kind = "task" \/ v.kind = "task" THEN u.kind = v.kind
              ELSE PyEq(u, v)

\* the task inputs of the two have equal descriptions
EqualTaskDescs(b1, b2) ==
    \A name \in TaskInputsOf(b1) :
       /\ Described(TaskInput(b1, name)) /\ Described(TaskInput(b2, name))
       /\ PyEq(TaskDesc(heap, TaskInput(b1, name)).val,
               TaskDesc(heap, TaskInput(b2, name)).val)

\* some task input of the two was constructed with different inputs
DifferentTaskInputs(b1, b2) ==
    \E name \in TaskInputsOf(b1) :
       ~PyEq(Dict(heap[TaskInput(b1, name)].taskinputs),
             Dict(heap[TaskInput(b2, name)].taskinputs))

\* the description of B holds, at the position of each task input A, the
\* description of A: its task name and its described inputs
C7_Embeds ==
    (last.op = "desc" /\ last.exc = "none") =>
        \A name \in TaskInputsOf(last.id) :
           LET a == TaskInput(last.id, name)
               A == TaskDesc(heap, a)
           IN  /\ A.exc = "none"
               /\ Get(Get(last.val.items, StrV("inputs")).items, name) = A.val
               /\ Get(A.val.items, StrV("taskname")) = StrV(heap[a].type)
               /\ Keys(Get(A.val.items, StrV("inputs")).items)
                      = Keys(inputs(heap[a].type))

\* C7 (as amended): the description of B holds the full description of each
\* task input A at that input's position, and two B built from the same raw
\* parameters have equal descriptions exactly when their task inputs have
\* equal descriptions.
C7_NestedDescription ==
    /\ C7_Embeds
    /\ \A b1, b2 \in 1..Len(heap) :
          (SameButTasks(b1, b2) /\ Described(b1) /\ Described(b2)) =>
              (EqualTaskDescs(b1, b2)
                   <=> PyEq(TaskDesc(heap, b1).val, TaskDesc(heap, b2).val))

\* C7 (as stated): ... two B built from the same raw parameters but from A
\* instances with different inputs have different descriptions, and ones
\* built from A instances with equal descriptions have equal descriptions.
C7_DifferentInputsDiffer ==
    /\ C7_Embeds
    /\ \A b1, b2 \in 1..Len(heap) :
          (SameButTasks(b1, b2) /\ Described(b1) /\ Described(b2)) =>
              /\ DifferentTaskInputs(b1, b2) =>
                     ~PyEq(TaskDesc(heap, b1).val, TaskDesc(heap, b2).val)
              /\ EqualTaskDescs(b1, b2) =>
                     PyEq(TaskDesc(heap, b1).val, TaskDesc(heap, b2).val)

\* the description of a B was computed, and another B with the same raw
\* parameters has a task input with another description
C7_Witness ==
    /\ last.op = "desc" /\ last.exc = "none"
    /\ \E b2 \in 1..Len(heap) :
          /\ b2 # last.id
          /\ SameButTasks(last.id, b2)
          /\ Described(b2)
          /\ ~EqualTaskDescs(last.id, b2)

\* C8: after any sequence of constructions and description requests, at
\* any depth of nested tasks, no run() was invoked and nothing was loaded:
\* the result slot of every instance is the not-computed sentinel and its
\* loaded-inputs cache is empty.
C8_DescribeWithoutRun ==
    \A i \in 1..Len(heap) :
       /\ heap[i].run_result = NotComputed
       /\ heap[i].loaded_inputs = None
       /\ \A k \in 1..Len(heap[i].fetches) : heap[i].fetches[k] = 0

\* the description of a task whose task input has a task input was computed
C8_Witness ==
    /\ last.op = "desc" /\ last.exc = "none"
    /\ \E name \in TaskInputsOf(last.id) :
          TaskInputsOf(TaskInput(last.id, name)) # {}

(***************************************************************************)
(* Claims about load_inputs().                                             *)
(***************************************************************************)
\* the inputs of instance i that load_inputs() fetches: nested tasks, files
Fetchable(i) ==
    {k \in 1..Len(heap[i].taskinputs) :
       heap[i].taskinputs[k][2].kind \in {"task", "DataFile"}}

\* C9 (as amended): load_inputs() is memoized from the first call that
\* returns: that call invokes run() of each nested-task input and loads each
\* file input once and caches the resolved inputs; from then on the instance
\* fetches nothing and every call returns the cached inputs.  A call that
\* raises caches nothing.
C9_MemoizedOnceReturned ==
    [][/\ \A i \in 1..Len(heap) :
             heap[i].loaded_inputs # None =>
                 /\ heap'[i].loaded_inputs = heap[i].loaded_inputs
                 /\ heap'[i].fetches = heap[i].fetches
       /\ last'.op = "load_inputs" =>
             LET i == last'.id
             IN  /\ heap[i].loaded_inputs # None =>
                        last'.exc = "none" /\ last'.val = heap[i].loaded_inputs
                 /\ (heap[i].loaded_inputs = None /\ last'.exc = "none") =>
                        /\ heap'[i].loaded_inputs = last'.val
                        /\ last'.val # None
                        /\ \A k \in 1..Len(heap[i].fetches) :
                              heap'[i].fetches[k] =
                                  heap[i].fetches[k]
                                      + (IF k \in Fetchable(i) THEN 1 ELSE 0)
                 /\ last'.exc # "none" =>
                        heap'[i].loaded_inputs = heap[i].loaded_inputs
      ]_vars

\* C9 (as stated): over any sequence of load_inputs() calls, an instance
\* invokes run() of each nested-task input and loads each file input at
\* most once.
C9_AtMostOnce ==
    \A i \in 1..Len(heap) : \A k \in 1..Len(heap[i].fetches) :
       heap[i].fetches[k] <= 1

\* a load_inputs() on an instance that had resolved its inputs, one of them
\* fetched, returned
C9_Witness ==
    /\ last.op = "load_inputs" /\ last.exc = "none"
    /\ last.was # None
    /\ \E k \in Fetchable(last.id) : heap[last.id].fetches[k] = 1

(***************************************************************************)
(* describe on two mappings that hold the same key/value pairs, inserted   *)
(* in different orders.                                                    *)
(***************************************************************************)
\* the orders in which the items q can be inserted
Reorderings(q) ==
    {p \in [1..Len(q) -> {q[i] : i \in 1..Len(q)}] :
       \A i \in 1..Len(q) : \E j \in 1..Len(q) : p[j] = q[i]}

\* the calls to make: describe on a mapping and on a reordering of it
InitMapping ==
    /\ heap = <<>>
    /\ last \in UNION {{[op |-> "call describe both", first |-> Dict(q),
                            second |-> Dict(p)] : p \in Reorderings(q)} :
                         q \in DictItems}

\* describe(first), describe(second)
CallDescribeBoth ==
    /\ last.op = "call describe both"
    /\ LET r1 == describe(heap, last.first)
           r2 == describe(heap, last.second)
       IN  last' = [op |-> "describe both", first |-> last.first,
                    second |-> last.second, exc1 |-> r1.exc, val1 |-> r1.val,
                    exc2 |-> r2.exc, val2 |-> r2.val]
    /\ UNCHANGED heap

NextMapping == CallDescribeBoth

SpecMapping == InitMapping /\ [][NextMapping]_vars

\* the values describe has a branch of its own for that returns
C11_Describable(v) == v.kind \notin {"DataFile", "set"}

\* C11: two mappings with the same key/value pairs, inserted in different
\* orders, have equal descriptions, with every key coerced to a string and
\* every value described.  (Stated for values describe handles; the others
\* are C6's.)
C11_OrderInsensitive ==
    (/\ last.op = "describe both"
     /\ \A i \in 1..Len(last.first.items) :
           C11_Describable(last.first.items[i][2]))
    => /\ last.exc1 = "none" /\ last.exc2 = "none"
       /\ PyEq(last.val1, last.val2)
       /\ Keys(last.val1.items) = {StrV(StrOf(k)) : k \in Keys(last.first.items)}
       /\ \A s \in Keys(last.val1.items) :
             \E k \in Keys(last.first.items) :
                /\ s = StrV(StrOf(k))
                /\ Get(last.val1.items, s)
                       = describe(heap, Get(last.first.items, k)).val

(***************************************************************************)
(* The graph of task instances: constructions by keywords, constructions   *)
(* T(t, **taskinputs) on an instance t that exists, and descriptions.      *)
(***************************************************************************)
\* T(t, **taskinputs) on an instance t that exists
RewrapCalls(h, T) ==
    {<<t, m>> : t \in Refs(h), m \in Partial(NestedVals, h, T, inputs(T))}

NextGraph ==
    \/ /\ Len(heap) < MaxGraphInstances
       /\ \E T \in NestedTypes : \E c \in NestedCalls(heap, T) : Construct(T, c[1], c[2])
    \/ \E T \in NestedTypes : \E c \in RewrapCalls(heap, T) : Construct(T, c[1], c[2])
    \/ \E i \in 1..Len(heap) : Desc(i)

SpecGraph == Init /\ [][NextGraph]_vars

\* the edges of the graph: the instances that are input descriptors of i
Edges(i) == {TaskInput(i, name) : name \in TaskInputsOf(i)}

RECURSIVE Reach(_, _)
\* the instances reached from the set S along at most n more edges
Reach(S, n) ==
    IF n = 0 THEN S ELSE Reach(S \cup UNION {Edges(j) : j \in S}, n - 1)

RECURSIVE DescWithin(_, _)
\* the description of instance i is computed with at most n desc
\* evaluations nested in one another
DescWithin(i, n) == n > 0 /\ \A j \in Edges(i) : DescWithin(j, n - 1)

\* C12: after any sequence of constructions, T(t) on an existing t
\* included, an instance has as input descriptors only instances that
\* existed before it, so no instance reaches itself in the graph of input
\* descriptors, and the description of instance i is computed by a descent
\* through at most i nested descriptions.
C12_Acyclic ==
    \A i \in 1..Len(heap) :
       /\ \A j \in Edges(i) : j < i
       /\ i \notin Reach(Edges(i), Len(heap))
       /\ DescWithin(i, i)

\* a T(t, ...) on an existing t that named a task as input, with a chain of
\* two nested tasks among the instances
C12_Witness ==
    /\ last.op = "construct" /\ last.params.kind = "task"
    /\ \E name \in Keys(last.taskinputs) : Get(last.taskinputs, name).kind = "task"
    /\ \E i \in 1..Len(heap) : \E j \in Edges(i) : Edges(j) # {}

====
